---- MODULE Spec2Model ----
(***************************************************************************)
(* torchdiffeq/_impl/misc.py: input normalisation (_check_inputs), the     *)
(* tuple/vector shape adapter (_flat_to_shape, _TupleFunc), the time       *)
(* reversal wrapper (_ReverseFunc) and the step-size controller            *)
(* (_select_initial_step, _compute_error_ratio, _optimal_step_size).       *)
(*                                                                         *)
(* Every function of the file is a call with no state of its own, so the   *)
(* state of the model is the last call: which function ran (op), the       *)
(* arguments it was given (args), what it returned or raised (ret), and    *)
(* the heap of option dictionaries (heap), which is what a call could      *)
(* mutate behind its caller's back.                                        *)
(***************************************************************************)
EXTENDS Integers, Sequences, FiniteSets, TLC

VARIABLES op, args, ret, heap

vars == <<op, args, ret, heap>>

(***************************************************************************)
(* Floating-point values.  A value is finite, an infinity or NaN.  A       *)
(* finite value is the exact rational n/d * 10^e in lowest terms (d > 0     *)
(* and coprime to 10, n not divisible by 10), so the constants of the code  *)
(* (1e-15, 1e-6, 1e-5, 0.01, 100) are exact and equal values are equal     *)
(* records.  Rounding is not modelled; division by zero, inf - inf and     *)
(* 0 * inf give the IEEE results the tensor library gives.  Zero carries   *)
(* no sign.                                                                *)
(***************************************************************************)
RECURSIVE Gcd(_, _)
Gcd(a, b) == IF b = 0 THEN a ELSE Gcd(b, a % b)

IAbs(i) == IF i < 0 THEN -i ELSE i

RECURSIVE Pow10(_)
Pow10(k) == IF k = 0 THEN 1 ELSE 10 * Pow10(k - 1)

\* n with its factors of ten moved to the exponent, n # 0.
RECURSIVE Strip10(_, _)
Strip10(n, e) == IF n % 10 = 0 THEN Strip10(n \div 10, e + 1) ELSE <<n, e>>

NaN == [k |-> "nan", n |-> 0, d |-> 1, e |-> 0]

Inf(sign) == [k |-> "inf", n |-> sign, d |-> 1, e |-> 0]

\* <<n, d, e>> with the factors 2 and 5 of d moved into n and the exponent.
RECURSIVE Clear25(_, _, _)
Clear25(n, d, e) ==
    IF d % 2 = 0 THEN Clear25(n * 5, d \div 2, e - 1)
    ELSE IF d % 5 = 0 THEN Clear25(n * 2, d \div 5, e - 1)
    ELSE <<n, d, e>>

\* The finite value n/d * 10^e, d # 0, in its one canonical form.
Fin(n, d, e) ==
    IF n = 0 THEN [k |-> "fin", n |-> 0, d |-> 1, e |-> 0]
    ELSE LET s  == IF (n < 0) = (d < 0) THEN 1 ELSE -1
             g  == Gcd(IAbs(n), IAbs(d))
             c  == Clear25(IAbs(n) \div g, IAbs(d) \div g, e)
             sn == Strip10(c[1], c[3])
         IN  [k |-> "fin", n |-> s * sn[1], d |-> c[2], e |-> sn[2]]

Num(i) == Fin(i, 1, 0)

\* The decimal literal m * 10^e of the source (1e-6 is Dec(1, -6)).
Dec(m, e) == Fin(m, 1, e)

Zero == Num(0)

One == Num(1)

IsNaN(a) == a.k = "nan"

Sign(a) == IF a.n > 0 THEN 1 ELSE IF a.n < 0 THEN -1 ELSE 0

\* p * 10^k < q for naturals p, q, k, without forming p * 10^k.
RECURSIVE ScaledLt(_, _, _)
ScaledLt(p, k, q) ==
    IF k = 0 THEN p < q
    ELSE IF p >= q THEN FALSE
    ELSE ScaledLt(p, k - 1, (q + 9) \div 10)

\* p * 10^ea < q * 10^eb for naturals p, q.
PosLt(p, ea, q, eb) ==
    IF ea >= eb THEN ScaledLt(p, ea - eb, q)
    ELSE ~ ScaledLt(q, eb - ea, p + 1)

\* a < b for finite a, b.
FinLt(a, b) ==
    LET p == a.n * b.d
        q == b.n * a.d
    IN  IF p < 0 /\ q >= 0 THEN TRUE
        ELSE IF p >= 0 /\ q <= 0 THEN FALSE
        ELSE IF p = 0 THEN TRUE
        ELSE IF p > 0 THEN PosLt(p, a.e, q, b.e)
        ELSE PosLt(-q, b.e, -p, a.e)

\* The comparison a < b of floats: False when either side is NaN.
Lt(a, b) ==
    IF IsNaN(a) \/ IsNaN(b) THEN FALSE
    ELSE IF a.k = "inf" THEN a.n < 0 /\ ~ (b.k = "inf" /\ b.n < 0)
    ELSE IF b.k = "inf" THEN b.n > 0
    ELSE FinLt(a, b)

Gt(a, b) == Lt(b, a)

\* a <= b of floats: False when either side is NaN.
Le(a, b) == ~ IsNaN(a) /\ ~ IsNaN(b) /\ ~ Lt(b, a)

Neg(a) == IF IsNaN(a) THEN NaN ELSE [a EXCEPT !.n = - a.n]

Abs(a) == IF IsNaN(a) THEN NaN ELSE [a EXCEPT !.n = IAbs(a.n)]

Add(a, b) ==
    IF IsNaN(a) \/ IsNaN(b) THEN NaN
    ELSE IF a.k = "inf" THEN (IF b.k = "inf" /\ b.n # a.n THEN NaN ELSE a)
    ELSE IF b.k = "inf" THEN b
    ELSE LET e == IF a.e < b.e THEN a.e ELSE b.e
         IN  Fin(a.n * Pow10(a.e - e) * b.d + b.n * Pow10(b.e - e) * a.d, a.d * b.d, e)

Sub(a, b) == Add(a, Neg(b))

Mul(a, b) ==
    IF IsNaN(a) \/ IsNaN(b) THEN NaN
    ELSE IF a.k = "inf" \/ b.k = "inf"
         THEN (IF Sign(a) * Sign(b) = 0 THEN NaN ELSE Inf(Sign(a) * Sign(b)))
    ELSE Fin(a.n * b.n, a.d * b.d, a.e + b.e)

Div(a, b) ==
    IF IsNaN(a) \/ IsNaN(b) THEN NaN
    ELSE IF a.k = "inf" THEN (IF b.k = "inf" THEN NaN
                              ELSE Inf(IF Sign(b) < 0 THEN - a.n ELSE a.n))
    ELSE IF b.k = "inf" THEN Zero
    ELSE IF b.n = 0 THEN (IF a.n = 0 THEN NaN ELSE Inf(Sign(a)))
    ELSE Fin(a.n * b.d, a.d * b.n, a.e - b.e)

\* a ** k for a natural k >= 1.
RECURSIVE Pow(_, _)
Pow(a, k) == IF k = 1 THEN a ELSE Mul(a, Pow(a, k - 1))

\* torch.max(a, b) of two scalars: NaN if either is.
TorchMax(a, b) == IF IsNaN(a) \/ IsNaN(b) THEN NaN ELSE IF Lt(a, b) THEN b ELSE a

\* Python's builtin max over a non-empty sequence: the first item is kept
\* until a later one compares greater, so a NaN is kept if it comes first
\* and skipped otherwise.
RECURSIVE PyMaxFrom(_, _, _)
PyMaxFrom(xs, i, best) ==
    IF i > Len(xs) THEN best
    ELSE PyMaxFrom(xs, i + 1, IF Gt(xs[i], best) THEN xs[i] ELSE best)

PyMax(xs) == PyMaxFrom(xs, 2, xs[1])

(***************************************************************************)
(* A root: Root(x, k) is x ** (1/k) for x >= 0 (or NaN), kept exact by     *)
(* carrying the radicand and the index.  A plain value is its own first    *)
(* root.  Two roots are compared after raising both to the product of      *)
(* their indices, which keeps the order of non-negative values.            *)
(***************************************************************************)
Root(x, k) == [x |-> x, k |-> k]

Plain(x) == Root(x, 1)

RootIsNaN(r) == IsNaN(r.x)

RootLt(r, s) == Lt(Pow(r.x, s.k), Pow(s.x, r.k))

RootLe(r, s) == Le(Pow(r.x, s.k), Pow(s.x, r.k))

\* Equal values, whatever the indices.
RootEq(r, s) == ~ RootIsNaN(r) /\ ~ RootIsNaN(s) /\ Pow(r.x, s.k) = Pow(s.x, r.k)

\* torch.min(r, s) and torch.max(r, s) of two roots: NaN if either is.
RootMin(r, s) == IF RootIsNaN(r) \/ RootIsNaN(s) THEN Plain(NaN) ELSE IF RootLt(s, r) THEN s ELSE r

RootMax(r, s) == IF RootIsNaN(r) \/ RootIsNaN(s) THEN Plain(NaN) ELSE IF RootLt(r, s) THEN s ELSE r

\* The product of two non-negative roots.
RootMul(r, s) == Root(Mul(Pow(r.x, s.k), Pow(s.x, r.k)), r.k * s.k)

\* r / s for roots r >= 0, s >= 0.
RootDiv(r, s) == Root(Div(Pow(r.x, s.k), Pow(s.x, r.k)), r.k * s.k)

\* r ** (1/k) for a root r >= 0 and a natural k >= 1.
RootOf(r, k) == Root(r.x, r.k * k)

(***************************************************************************)
(* Right-hand sides.  func is the caller's function (time, state) ->       *)
(* derivative; the model has four of them, applied to a tuple of scalar    *)
(* components: y' = 0, y' = 1, y' = y and y' = t.                          *)
(***************************************************************************)
RhsNames == {"zero", "one", "ident", "time"}

Rhs(func, t, y) ==
    [i \in 1..Len(y) |->
        CASE func = "zero"  -> Zero
          [] func = "one"   -> One
          [] func = "ident" -> y[i]
          [] func = "time"  -> t]

\* f0=None, and an f0 that is supplied.
None == [given |-> FALSE, value |-> <<>>]

Given(f0) == [given |-> TRUE, value |-> f0]

(***************************************************************************)
(* _norm: x.norm() / sqrt(x.numel()).  The components the controller       *)
(* iterates over are the elements of the flattened state, each a 0-d       *)
(* tensor: its 2-norm is its magnitude and its element count is one.       *)
(***************************************************************************)
_norm(x) == Abs(x)

\* Variant: f0 evaluated whether it is supplied or not.
InitialDerivativeEager(func, t0, y0, f0) ==
    [f0 |-> Rhs(func, t0, y0), evals |-> 1]

\* f0 as _select_initial_step uses it, with the evaluations of func spent.
InitialDerivative(func, t0, y0, f0) ==
    IF ~ f0.given THEN [f0 |-> Rhs(func, t0, y0), evals |-> 1]
    ELSE [f0 |-> f0.value, evals |-> 0]

\* The trial step h0 of the Hairer-Norsett-Wanner heuristic.
TrialStep(d0, d1) ==
    IF Lt(PyMax(d0), Dec(1, -5)) \/ Lt(PyMax(d1), Dec(1, -5))
    THEN Dec(1, -6)
    ELSE Mul(Dec(1, -2), PyMax([i \in 1..Len(d0) |-> Div(d0[i], d1[i])]))

\* Variant: the largest componentwise sum d1[i] + d2[i].
MaxD1D2BySum(d1, d2) == PyMax([i \in 1..Len(d1) |-> Add(d1[i], d2[i])])

\* max(d1 + d2): d1 and d2 are tuples, and + on tuples concatenates.
MaxD1D2(d1, d2) == PyMax(d1 \o d2)

\* Whether the derivative and the curvature are both negligible.
Negligible(d1, d2) == Le(PyMax(d1), Dec(1, -15)) /\ Le(PyMax(d2), Dec(1, -15))

_select_initial_step(func, t0, y0, order, rtol, atol, f0) ==
    LET n     == Len(y0)
        first == InitialDerivative(func, t0, y0, f0)
        f0v   == first.f0
        scale == [i \in 1..n |-> Add(atol[i], Mul(Abs(y0[i]), rtol[i]))]
        d0    == [i \in 1..n |-> _norm(Div(y0[i], scale[i]))]
        d1    == [i \in 1..n |-> _norm(Div(f0v[i], scale[i]))]
        h0    == TrialStep(d0, d1)
        y1    == [i \in 1..n |-> Add(y0[i], Mul(h0, f0v[i]))]
        f1    == Rhs(func, Add(t0, h0), y1)
        d2    == [i \in 1..n |-> Div(_norm(Div(Sub(f1[i], f0v[i]), scale[i])), h0)]
        degen == Negligible(d1, d2)
        M     == MaxD1D2(d1, d2)
        h1    == IF degen
                 THEN Plain(TorchMax(Dec(1, -6), Mul(h0, Dec(1, -3))))
                 ELSE Root(Div(Dec(1, -2), M), order + 1)
    IN  [status |-> "ok",
         evals  |-> first.evals + 1,
         f0     |-> f0v,
         f1     |-> f1,
         d0     |-> d0,
         d1     |-> d1,
         d2     |-> d2,
         h0     |-> h0,
         degen  |-> degen,
         M      |-> M,
         h1     |-> h1,
         value  |-> RootMin(Plain(Mul(Num(100), h0)), h1)]

(***************************************************************************)
(* _compute_error_ratio, for one component of one element: the mean of the *)
(* squared ratio error_estimate / error_tol.                               *)
(***************************************************************************)
_compute_error_ratio(error_estimate, error_tol) ==
    [i \in 1..Len(error_estimate) |->
        Pow(Div(error_estimate[i], error_tol[i]), 2)]

\* Variant: the first component governs.
WorstRatioFirst(mean_error_ratio) == mean_error_ratio[1]

\* The reduction of the per-component ratios to the one that governs.
WorstRatio(mean_error_ratio) == PyMax(mean_error_ratio)

\* Variant: dfactor as given, whatever the worst ratio.
DeflationUnclamped(worst, dfactor) == dfactor

\* The deflation factor in force for a worst ratio.
Deflation(worst, dfactor) == IF Lt(worst, One) THEN One ELSE dfactor

_optimal_step_size(last_step, mean_error_ratio, safety, ifactor, dfactor, order) ==
    LET worst == WorstRatio(mean_error_ratio)
    IN  IF worst = Zero
        THEN [status |-> "ok", branch |-> "zero", worst |-> worst,
              dfactor |-> dfactor,
              factor |-> Plain(ifactor),
              value |-> Plain(Mul(last_step, ifactor))]
        ELSE LET dfac        == Deflation(worst, dfactor)
                 error_ratio == Root(worst, 2)
                 powered     == RootOf(error_ratio, order)
                 factor      == RootMin(Plain(ifactor),
                                        RootMax(RootDiv(Plain(safety), powered),
                                                Plain(dfac)))
             IN  [status |-> "ok", branch |-> "control", worst |-> worst,
                  dfactor |-> dfac,
                  factor |-> factor,
                  value |-> RootMul(Plain(last_step), factor)]

(***************************************************************************)
(* Tensors of the input layer.  A tensor is its shape and its elements in  *)
(* row-major order; the elements of a time grid or of a state are small    *)
(* integers standing for floats, since the input layer only compares,      *)
(* slices and negates them.                                                *)
(***************************************************************************)
RECURSIVE Numel(_)
Numel(shape) == IF shape = <<>> THEN 1 ELSE Head(shape) * Numel(Tail(shape))

Tensor(shape, data, floating) ==
    [kind |-> "tensor", shape |-> shape, data |-> data, floating |-> floating]

\* A value that is not a tensor (a list, a float).
NonTensor == [kind |-> "other", shape |-> <<>>, data |-> <<>>, floating |-> FALSE]

NegData(data) == [i \in 1..Len(data) |-> - data[i]]

\* -x for a tensor x: a new tensor.
NegTensor(x) == [x EXCEPT !.data = NegData(x.data)]

Min2(a, b) == IF a < b THEN a ELSE b

\* tensor[lo:hi] of a 1-D tensor: Python clamps both ends to the length.
Slice(data, lo, hi) == SubSeq(data, Min2(lo, Len(data)) + 1, Min2(hi, Len(data)))

\* x.view(*shape).  With an empty shape the call is x.view(), which the
\* tensor library rejects for want of a size argument; a shape of another
\* element count than x is rejected too.
View(data, shape) ==
    IF shape = <<>> THEN [status |-> "TypeError", value |-> <<>>]
    ELSE IF Numel(shape) # Len(data) THEN [status |-> "RuntimeError", value |-> <<>>]
    ELSE [status |-> "ok", value |-> [shape |-> shape, data |-> data]]

RECURSIVE FlatToShapeFrom(_, _, _, _, _)
FlatToShapeFrom(tensor, shapes, i, total, tensor_list) ==
    IF i > Len(shapes) THEN [status |-> "ok", value |-> tensor_list]
    ELSE LET next_total == total + Numel(shapes[i])
             piece      == View(Slice(tensor, total, next_total), shapes[i])
         IN  IF piece.status # "ok" THEN [status |-> piece.status, value |-> <<>>]
             ELSE FlatToShapeFrom(tensor, shapes, i + 1, next_total,
                                  Append(tensor_list, piece.value))

_flat_to_shape(tensor, shapes) == FlatToShapeFrom(tensor, shapes, 1, 0, <<>>)

\* [y0_.shape for y0_ in y0]
ShapesOf(items) == [i \in 1..Len(items) |-> items[i].shape]

RECURSIVE Concat(_)
Concat(seqs) == IF seqs = <<>> THEN <<>> ELSE Head(seqs) \o Concat(Tail(seqs))

\* torch.cat([y0_.reshape(-1) for y0_ in y0]): row-major order is kept by
\* reshape(-1); torch.cat refuses an empty list.
CatFlat(items) ==
    IF items = <<>> THEN [status |-> "RuntimeError", value |-> <<>>]
    ELSE [status |-> "ok", value |-> Concat([i \in 1..Len(items) |-> items[i].data])]

(***************************************************************************)
(* Function values.  The caller's right-hand side is a name; _TupleFunc    *)
(* and _ReverseFunc wrap a function value into a new one.  The state a     *)
(* function is applied to is a flat vector (a sequence) under kind "flat"  *)
(* or a tuple of shaped arrays under kind "tuple".                         *)
(***************************************************************************)
BaseFuncNames == {"ident", "sum"}

BaseFunc(name) == [kind |-> "base", name |-> name, shapes |-> <<>>, depth |-> 0]

_TupleFunc(base_func, shapes) ==
    [kind |-> "tuple", base_func |-> base_func, shapes |-> shapes,
     depth |-> base_func.depth + 1]

_ReverseFunc(base_func) ==
    [kind |-> "reverse", base_func |-> base_func, shapes |-> <<>>,
     depth |-> base_func.depth + 1]

\* The caller's function on one array of elements: y' = y, or y' = t + y.
BaseOnData(name, t, data) ==
    [i \in 1..Len(data) |-> IF name = "ident" THEN data[i] ELSE t + data[i]]

ApplyBase(name, t, y) ==
    IF y.kind = "flat"
    THEN [status |-> "ok", kind |-> "flat", value |-> BaseOnData(name, t, y.value)]
    ELSE [status |-> "ok", kind |-> "tuple",
          value |-> [i \in 1..Len(y.value) |->
                        [shape |-> y.value[i].shape,
                         data  |-> BaseOnData(name, t, y.value[i].data)]]]

\* func(t, y): the forward methods of the wrappers, down to the caller's
\* function.
RECURSIVE Forward(_, _, _)
Forward(func, t, y) ==
    CASE func.kind = "base" -> ApplyBase(func.name, t, y)
      [] func.kind = "tuple" ->
            LET parts == _flat_to_shape(y.value, func.shapes)
            IN  IF parts.status # "ok"
                THEN [status |-> parts.status, kind |-> "flat", value |-> <<>>]
                ELSE LET f == Forward(func.base_func, t,
                                      [kind |-> "tuple", value |-> parts.value])
                     IN  IF f.status # "ok" THEN f
                         ELSE [status |-> CatFlat(f.value).status, kind |-> "flat",
                               value |-> CatFlat(f.value).value]
      [] func.kind = "reverse" ->
            LET f == Forward(func.base_func, - t, y)
            IN  IF f.status # "ok" THEN f
                ELSE [f EXCEPT !.value = NegData(f.value)]

(***************************************************************************)
(* Option dictionaries.  A dict is the sequence of its items in insertion  *)
(* order; the heap maps an object identity (an index) to the dict stored   *)
(* there, so that a copy and an alias differ.                              *)
(***************************************************************************)
HasKey(dict, key) == \E i \in 1..Len(dict) : dict[i].key = key

GetItem(dict, key) == dict[CHOOSE i \in 1..Len(dict) : dict[i].key = key].value

\* dict[key] = value
SetItem(dict, key, value) ==
    IF HasKey(dict, key)
    THEN [i \in 1..Len(dict) |->
            IF dict[i].key = key THEN [key |-> key, value |-> value] ELSE dict[i]]
    ELSE Append(dict, [key |-> key, value |-> value])

\* Variant: no copy, the same object under another name.
DictCopyAlias(h, ref) == [heap |-> h, ref |-> ref]

\* options.copy(): a new object holding the same items.
DictCopy(h, ref) == [heap |-> Append(h, h[ref]), ref |-> Len(h) + 1]

\* Variant: decreasing only if there is a pair to compare.
_decreasingSomePair(t) ==
    /\ Len(t.data) >= 2
    /\ \A i \in 1..(Len(t.data) - 1) : t.data[i + 1] < t.data[i]

\* (t[1:] < t[:-1]).all(): all() of no comparison at all is True.
_decreasing(t) == \A i \in 1..(Len(t.data) - 1) : t.data[i + 1] < t.data[i]

_assert_one_dimensional(t) == Len(t.shape) = 1

_assert_increasing(t) == \A i \in 1..(Len(t.data) - 1) : t.data[i + 1] > t.data[i]

Raise(error, func, y0, t, options, h) ==
    [status |-> error, tensor_input |-> TRUE, shapes |-> <<>>, func |-> func,
     y0 |-> y0, t |-> t, options |-> options, heap |-> h]

\* Lines 191-200: the reversal of a decreasing grid.
ReverseIfDecreasing(tensor_input, shapes, func, y0, t, options, h) ==
    IF _decreasing(t)
    THEN IF HasKey(h[options], "grid_points")
         THEN LET grid_points == GetItem(h[options], "grid_points")
                  copied      == DictCopy(h, options)
              IN  [status |-> "ok", tensor_input |-> tensor_input, shapes |-> shapes,
                   func |-> _ReverseFunc(func), y0 |-> y0, t |-> NegTensor(t),
                   options |-> copied.ref,
                   heap |-> [copied.heap EXCEPT ![copied.ref] =
                               SetItem(@, "grid_points", NegTensor(grid_points))]]
         ELSE [status |-> "ok", tensor_input |-> tensor_input, shapes |-> shapes,
               func |-> _ReverseFunc(func), y0 |-> y0, t |-> NegTensor(t),
               options |-> options, heap |-> h]
    ELSE [status |-> "ok", tensor_input |-> tensor_input, shapes |-> shapes,
          func |-> func, y0 |-> y0, t |-> t, options |-> options, heap |-> h]

\* Lines 180-189: the state, flattened if it is a tuple.
NormalizeState(func, y0, t, options, h) ==
    IF y0.kind = "tensor"
    THEN IF ~ y0.floating THEN Raise("TypeError", func, y0, t, options, h)
         ELSE ReverseIfDecreasing(TRUE, <<>>, func, y0, t, options, h)
    ELSE IF y0.kind # "tuple" THEN Raise("AssertionError", func, y0, t, options, h)
    ELSE LET shapes == ShapesOf(y0.items)
             flat   == CatFlat(y0.items)
         IN  IF flat.status # "ok" THEN Raise(flat.status, func, y0, t, options, h)
             ELSE IF ~ y0.floating THEN Raise("TypeError", func, y0, t, options, h)
             ELSE ReverseIfDecreasing(FALSE, shapes, _TupleFunc(func, shapes),
                                      Tensor(<<Len(flat.value)>>, flat.value, TRUE),
                                      t, options, h)

\* options is the identity of the caller's dict in the heap h.
_check_inputs(func, y0, t, options, h) ==
    IF t.kind # "tensor" THEN Raise("AssertionError", func, y0, t, options, h)
    ELSE IF ~ _assert_one_dimensional(t) THEN Raise("AssertionError", func, y0, t, options, h)
    ELSE IF ~ _assert_increasing(t) THEN Raise("AssertionError", func, y0, t, options, h)
    ELSE IF ~ t.floating THEN Raise("TypeError", func, y0, t, options, h)
    ELSE IF /\ HasKey(h[options], "grid_points")
            /\ LET grid_points == GetItem(h[options], "grid_points")
               IN  \/ grid_points.kind # "tensor"
                   \/ ~ _assert_one_dimensional(grid_points)
                   \/ ~ _assert_increasing(grid_points)
         THEN Raise("AssertionError", func, y0, t, options, h)
    ELSE NormalizeState(func, y0, t, options, h)

(***************************************************************************)
(* Bounds and inputs.                                                      *)
(***************************************************************************)
\* The longest time grid.
MaxGridLen == 3

\* The most components of a tuple state handed to the shape adapter.
MaxComponents == 2

\* The most components of the state the step-size controller sees.
MaxDim == 2

\* The highest method order.
MaxOrder == 2

\* The longest vector handed to _flat_to_shape on its own.
MaxVecLen == 4

SeqsUpTo(S, n) == UNION {[1..k -> S] : k \in 0..n}

TimeVals == {1, 2, 3}

\* t: a 1-D tensor of either element type, a 2-D tensor, or no tensor.
TimeInputs ==
    {Tensor(<<Len(d)>>, d, fl) : d \in SeqsUpTo(TimeVals, MaxGridLen), fl \in BOOLEAN}
        \cup {Tensor(<<1, 2>>, <<1, 2>>, TRUE), NonTensor}

\* options['grid_points']: a 1-D tensor, a 2-D tensor, or no tensor.
GridInputs ==
    {Tensor(<<Len(d)>>, d, TRUE) : d \in SeqsUpTo({1, 2}, 2)}
        \cup {Tensor(<<1, 2>>, <<1, 2>>, TRUE), NonTensor}

StepSizeItem == [key |-> "step_size", value |-> Tensor(<<>>, <<1>>, TRUE)]

\* options: empty, without grid_points, or with grid_points first.
OptionInputs ==
    {<<>>, <<StepSizeItem>>}
        \cup {<<[key |-> "grid_points", value |-> g], StepSizeItem>> : g \in GridInputs}

Array(shape, data) == [shape |-> shape, data |-> data]

TupleState(items, floating) ==
    [kind |-> "tuple", items |-> items, shape |-> <<>>, data |-> <<>>,
     floating |-> floating]

\* y0: a tensor, a tuple of tensors, or neither.
StateInputs ==
    {Tensor(<<2>>, <<1, 2>>, TRUE),
     Tensor(<<2>>, <<1, 2>>, FALSE),
     TupleState(<<Array(<<2>>, <<1, 2>>), Array(<<1, 1>>, <<3>>)>>, TRUE),
     TupleState(<<Array(<<2>>, <<1, 2>>)>>, FALSE),
     TupleState(<<>>, TRUE),
     [NonTensor EXCEPT !.kind = "list"]}

\* Shapes of state components: rank 0, zero-size, vectors and matrices.
ShapeSet == {<<>>, <<0>>, <<1>>, <<2>>, <<2, 1>>, <<2, 0>>}

\* Arrays of the given shapes holding 1, 2, 3, ... in order.
RECURSIVE ItemsFrom(_, _)
ItemsFrom(shapes, first) ==
    IF shapes = <<>> THEN <<>>
    ELSE <<Array(Head(shapes),
                 [i \in 1..Numel(Head(shapes)) |-> first + i - 1])>>
         \o ItemsFrom(Tail(shapes), first + Numel(Head(shapes)))

StateVals == {Zero, One, Num(-2)}

DerivVals == {Zero, One}

\* (rtol, atol), both positive.
Tolerances == {[rtol |-> Dec(1, -1), atol |-> Dec(1, -1)], [rtol |-> One, atol |-> One]}

\* <<error estimate, error tolerance>> of one component.
ErrorSamples == {<<0, 1>>, <<1, 2>>, <<19, 20>>, <<1, 1>>, <<-2, 1>>, <<5, 1>>}

\* The mean-squared error ratios _compute_error_ratio produces from them.
MeanSqRatios ==
    {_compute_error_ratio(<<Num(x[1])>>, <<Num(x[2])>>)[1] : x \in ErrorSamples}

LastSteps == {Dec(1, -1), Num(2)}

\* safety in (0, 1), ifactor >= 1, dfactor in (0, 1).
Safeties == {Dec(9, -1)}

IFactors == {One, Num(2), Num(10)}

DFactors == {Dec(2, -1), Dec(5, -1)}

Const(n, v) == [i \in 1..n |-> v]

(***************************************************************************)
(* The calls.  A call starts from the idle state and leaves its result in  *)
(* the state; Return drops the result, after which the next call starts.   *)
(***************************************************************************)
\* _check_inputs(func, y0, t, options): the caller's dict is object 1.
CheckInputs ==
    /\ op = "none"
    /\ \E name \in BaseFuncNames, y0 \in StateInputs, t \in TimeInputs,
       options \in OptionInputs :
        LET r == _check_inputs(BaseFunc(name), y0, t, 1, <<options>>)
        IN  /\ op' = "check_inputs"
            /\ args' = [func |-> BaseFunc(name), y0 |-> y0, t |-> t,
                        options |-> 1, dict |-> options]
            /\ ret' = [status |-> r.status, tensor_input |-> r.tensor_input,
                       shapes |-> r.shapes, func |-> r.func, y0 |-> r.y0,
                       t |-> r.t, options |-> r.options]
            /\ heap' = r.heap

\* _flat_to_shape(tensor, shapes) on a vector of any length.
FlatToShape ==
    /\ op = "none"
    /\ \E len \in 0..MaxVecLen, shapes \in SeqsUpTo(ShapeSet, MaxComponents) :
        LET tensor == [i \in 1..len |-> i]
        IN  /\ op' = "flat_to_shape"
            /\ args' = [tensor |-> tensor, shapes |-> shapes]
            /\ ret' = _flat_to_shape(tensor, shapes)
            /\ heap' = <<>>

\* A tuple state flattened as _check_inputs flattens it (lines 185-186) and
\* handed back to the caller's function by _TupleFunc.forward (line 151).
TupleRoundTrip ==
    /\ op = "none"
    /\ \E shapes \in SeqsUpTo(ShapeSet, MaxComponents) :
        LET y0   == ItemsFrom(shapes, 1)
            flat == CatFlat(y0)
        IN  /\ op' = "round_trip"
            /\ args' = [y0 |-> y0]
            /\ ret' = IF flat.status # "ok"
                      THEN [status |-> flat.status, shapes |-> ShapesOf(y0),
                            flat |-> <<>>, value |-> <<>>]
                      ELSE LET back == _flat_to_shape(flat.value, ShapesOf(y0))
                           IN  [status |-> back.status, shapes |-> ShapesOf(y0),
                                flat |-> flat.value, value |-> back.value]
            /\ heap' = <<>>

SelectInitialStep ==
    /\ op = "none"
    /\ \E func \in RhsNames, t0 \in {Zero, One}, n \in 1..MaxDim,
       order \in 1..MaxOrder, tol \in Tolerances :
        \E y0 \in [1..n -> StateVals],
           f0 \in {None} \cup {Given(v) : v \in [1..n -> DerivVals]} :
            /\ op' = "select_initial_step"
            /\ args' = [func |-> func, t0 |-> t0, y0 |-> y0, order |-> order,
                        rtol |-> tol.rtol, atol |-> tol.atol, f0 |-> f0]
            /\ ret' = _select_initial_step(func, t0, y0, order,
                                           Const(n, tol.rtol), Const(n, tol.atol), f0)
            /\ heap' = <<>>

OptimalStepSize ==
    /\ op = "none"
    /\ \E last_step \in LastSteps, n \in 1..MaxDim, safety \in Safeties,
       ifactor \in IFactors, dfactor \in DFactors, order \in 1..MaxOrder :
        \E mean_error_ratio \in [1..n -> MeanSqRatios] :
            /\ op' = "optimal_step_size"
            /\ args' = [last_step |-> last_step, mean_error_ratio |-> mean_error_ratio,
                        safety |-> safety, ifactor |-> ifactor, dfactor |-> dfactor,
                        order |-> order]
            /\ ret' = _optimal_step_size(last_step, mean_error_ratio, safety,
                                         ifactor, dfactor, order)
            /\ heap' = <<>>

Return ==
    /\ op # "none"
    /\ op' = "none"
    /\ args' = [none |-> TRUE]
    /\ ret' = [status |-> "none"]
    /\ heap' = <<>>

Init ==
    /\ op = "none"
    /\ args = [none |-> TRUE]
    /\ ret = [status |-> "none"]
    /\ heap = <<>>

Next ==
    \/ CheckInputs
    \/ FlatToShape
    \/ TupleRoundTrip
    \/ SelectInitialStep
    \/ OptimalStepSize
    \/ Return

Spec == Init /\ [][Next]_vars

(***************************************************************************)
(* Properties.                                                             *)
(***************************************************************************)
StrictlyDecreasing(d) == \A i \in 1..(Len(d) - 1) : d[i + 1] < d[i]

StrictlyIncreasing(d) == \A i \in 1..(Len(d) - 1) : d[i + 1] > d[i]

\* A state and options that _check_inputs has no reason to reject.
ValidStateAndOptions ==
    /\ args.y0.floating
    /\ \/ args.y0.kind = "tensor"
       \/ args.y0.kind = "tuple" /\ args.y0.items # <<>>
    /\ HasKey(args.dict, "grid_points") =>
          LET g == GetItem(args.dict, "grid_points")
          IN  g.kind = "tensor" /\ Len(g.shape) = 1 /\ StrictlyIncreasing(g.data)

\* The function _check_inputs would return without a time reversal.
Unreversed ==
    IF args.y0.kind = "tuple"
    THEN _TupleFunc(args.func, ShapesOf(args.y0.items))
    ELSE args.func

\* g(s, y) = - f(-s, y) at sampled times s, on the returned state, for the
\* returned function g and the unreversed function f.
ReversesTime(g, f) ==
    \A s \in {-1, 0, 2} :
        LET y  == [kind |-> "flat", value |-> ret.y0.data]
            gv == Forward(g, s, y)
            fv == Forward(f, - s, y)
        IN  gv.status = "ok" /\ fv.status = "ok" /\ gv.value = NegData(fv.value)

\* C1: a strictly decreasing floating-point time grid of at least two points
\* (with a valid state and valid options) is accepted: _check_inputs raises
\* nothing and returns the negated grid, which is strictly increasing, and a
\* right-hand side g with g(t, y) = -f(-t, y).
C1_DecreasingGridAccepted ==
    ( /\ op = "check_inputs"
      /\ args.t.kind = "tensor" /\ Len(args.t.shape) = 1 /\ args.t.floating
      /\ Len(args.t.data) >= 2
      /\ StrictlyDecreasing(args.t.data)
      /\ ValidStateAndOptions )
    => /\ ret.status = "ok"
       /\ ret.t.data = NegData(args.t.data)
       /\ StrictlyIncreasing(ret.t.data)
       /\ ReversesTime(ret.func, Unreversed)

RECURSIVE SumNumel(_)
SumNumel(shapes) == IF shapes = <<>> THEN 0 ELSE Numel(Head(shapes)) + SumNumel(Tail(shapes))

\* C2: _flat_to_shape fails, and returns no tuple, whenever the vector's
\* element count differs from the sum of the element counts of the shapes,
\* be the vector longer or shorter.
C2_MismatchRejected ==
    (op = "flat_to_shape" /\ Len(args.tensor) # SumNumel(args.shapes))
    => ret.status # "ok"

\* C3: a (non-empty) tuple of arrays of any shapes, rank 0 and zero-size
\* included, flattened and unflattened with its recorded shapes, comes back
\* with the same components: same shapes, same elements, same order.
C3_RoundTrip ==
    (op = "round_trip" /\ args.y0 # <<>>)
    => ret.status = "ok" /\ ret.value = args.y0

\* The dict d with the value under grid_points negated, all else as it was.
WithNegatedGrid(d) ==
    [i \in 1..Len(d) |->
        IF d[i].key = "grid_points"
        THEN [key |-> "grid_points", value |-> NegTensor(d[i].value)]
        ELSE d[i]]

\* C4: after any call of _check_inputs, failed or not, the caller's options
\* dict holds the keys and values it held before the call; a negated
\* grid_points is only ever in another object, the copy that is returned.
C4_OptionsNotMutated ==
    op = "check_inputs"
    => /\ heap[args.options] = args.dict
       /\ ret.options # args.options
            => /\ ret.status = "ok"
               /\ HasKey(args.dict, "grid_points")
               /\ heap[ret.options] = WithNegatedGrid(args.dict)

\* C4's case: a call that returned a copy whose grid_points differ from the
\* caller's.
C4_Witness ==
    /\ op = "check_inputs"
    /\ ret.status = "ok"
    /\ ret.options # args.options
    /\ GetItem(heap[ret.options], "grid_points") # GetItem(args.dict, "grid_points")

\* The largest of a tuple of ratios, none of them NaN.
IsLargest(m, ratios) ==
    /\ \E i \in 1..Len(ratios) : ratios[i] = m
    /\ \A i \in 1..Len(ratios) : Le(ratios[i], m)

\* C5: _optimal_step_size reduces the ratios by their maximum; when every
\* ratio is zero it returns exactly last_step * ifactor, and when some ratio
\* is not zero it does not take the zero branch.
C5_ZeroRatioGrowsMaximally ==
    op = "optimal_step_size"
    => /\ IsLargest(ret.worst, args.mean_error_ratio)
       /\ (\A i \in 1..Len(args.mean_error_ratio) : args.mean_error_ratio[i] = Zero)
            => /\ ret.branch = "zero"
               /\ ret.value = Plain(Mul(args.last_step, args.ifactor))
       /\ (\E i \in 1..Len(args.mean_error_ratio) : args.mean_error_ratio[i] # Zero)
            => ret.branch # "zero"

\* C5's case: several components, all zero, and a step that grows.
C5_Witness ==
    /\ op = "optimal_step_size"
    /\ Len(args.mean_error_ratio) >= 2
    /\ ret.branch = "zero"
    /\ args.ifactor # One

\* C6 as stated: every call of _select_initial_step evaluates the right-hand
\* side exactly twice and returns.
C6_AlwaysTwoEvaluations ==
    op = "select_initial_step" => ret.status = "ok" /\ ret.evals = 2

\* C6, amended: every call of _select_initial_step returns, after exactly
\* two evaluations of the right-hand side when f0 is omitted and exactly one
\* when f0 is supplied.
C6_EvaluationsByF0 ==
    op = "select_initial_step"
    => /\ ret.status = "ok"
       /\ ret.evals = IF args.f0.given THEN 1 ELSE 2

\* C6's case: an f0 is supplied, other than func(t0, y0), and one
\* evaluation is made.
C6_Witness ==
    /\ op = "select_initial_step"
    /\ args.f0.given
    /\ ret.evals = 1
    /\ ret.f0 # Rhs(args.func, args.t0, args.y0)

AllZero(v) == \A i \in 1..Len(v) : v[i] = Zero

\* C7: with positive tolerances _select_initial_step returns a strictly
\* positive step, and exactly 1e-6 when y0 and f0 are zero vectors, whatever
\* the right-hand side is at t0 + h0.
C7_PositiveAndTinyAtZero ==
    (op = "select_initial_step" /\ Lt(Zero, args.rtol) /\ Lt(Zero, args.atol))
    => /\ RootLt(Plain(Zero), ret.value)
       /\ (AllZero(args.y0) /\ AllZero(ret.f0))
            => RootEq(ret.value, Plain(Dec(1, -6)))

\* The entries of a tuple of floats hold no NaN.
NoNaN(v) == \A i \in 1..Len(v) : ~ IsNaN(v[i])

\* C9 as stated: outside the degenerate branch, h1 = (0.01 / M) ** (1/(order+1))
\* with M the largest per-component sum d1[i] + d2[i].
C9_MaxOfSums ==
    (op = "select_initial_step" /\ ~ ret.degen /\ NoNaN(ret.d1 \o ret.d2))
    => \E i \in 1..Len(ret.d1) :
          /\ \A j \in 1..Len(ret.d1) :
                Le(Add(ret.d1[j], ret.d2[j]), Add(ret.d1[i], ret.d2[i]))
          /\ ret.h1 = Root(Div(Dec(1, -2), Add(ret.d1[i], ret.d2[i])),
                           args.order + 1)

\* C9, amended: outside the degenerate branch, h1 = (0.01 / M) ** (1/(order+1))
\* with M Python's max over the 2n entries of d1 followed by d2: when no
\* entry is NaN, the largest single entry of either tuple.
C9_MaxOfEntries ==
    (op = "select_initial_step" /\ ~ ret.degen)
    => /\ ret.h1 = Root(Div(Dec(1, -2), ret.M), args.order + 1)
       /\ ret.M = PyMaxFrom(ret.d1 \o ret.d2, 2, ret.d1[1])
       /\ NoNaN(ret.d1 \o ret.d2) => IsLargest(ret.M, ret.d1 \o ret.d2)

\* C9's case: a largest entry that is smaller than the largest sum.
C9_Witness ==
    /\ op = "select_initial_step"
    /\ ~ ret.degen
    /\ Len(ret.d1) >= 2
    /\ NoNaN(ret.d1 \o ret.d2)
    /\ \E i \in 1..Len(ret.d1) : Lt(ret.M, Add(ret.d1[i], ret.d2[i]))

\* The worst ratio of the call, as the largest argument.
WorstOfArgs == CHOOSE m \in {args.mean_error_ratio[i] : i \in 1..Len(args.mean_error_ratio)} :
                  IsLargest(m, args.mean_error_ratio)

\* C8: with ifactor >= 1, a worst ratio strictly between 0 and 1 clamps the
\* deflation factor to 1 and the step returned lies in
\* [last_step, last_step * ifactor]; a worst ratio >= 1 gives a step in
\* [last_step * dfactor, last_step * ifactor].
C8_StepWithinClamps ==
    (op = "optimal_step_size" /\ Le(One, args.ifactor))
    => LET worst == WorstOfArgs
           upper == Plain(Mul(args.last_step, args.ifactor))
       IN  /\ (Lt(Zero, worst) /\ Lt(worst, One))
                => /\ ret.dfactor = One
                   /\ RootLe(Plain(args.last_step), ret.value)
                   /\ RootLe(ret.value, upper)
           /\ Le(One, worst)
                => /\ RootLe(Plain(Mul(args.last_step, args.dfactor)), ret.value)
                   /\ RootLe(ret.value, upper)

\* C8's case: an accepted step whose nominal factor is below 1 and is held
\* at 1 by the clamp.
C8_Witness ==
    /\ op = "optimal_step_size"
    /\ Lt(Zero, ret.worst) /\ Lt(ret.worst, One)
    /\ ret.factor = Plain(One)
    /\ Lt(One, args.ifactor)
    /\ RootEq(ret.value, Plain(args.last_step))

\* Every consecutive pair of the grid descends (no pair at all included).
EveryPairDescends(d) == \A i \in 1..(Len(d) - 1) : d[i + 1] < d[i]

\* C10 as stated: on success the grid is negated and the right-hand side
\* reversed only if some consecutive pair descends; any other accepted grid,
\* a single point or none included, comes back as it was, the right-hand side
\* not reversed.
C10_ReversedOnlyWithDescent ==
    (op = "check_inputs" /\ ret.status = "ok")
    => \/ \E i \in 1..(Len(args.t.data) - 1) : args.t.data[i + 1] < args.t.data[i]
       \/ ret.t = args.t /\ ret.func = Unreversed

\* C10, amended: on success the grid is negated and the right-hand side
\* reversed exactly when every consecutive pair descends, which a grid of one
\* point or of none does vacuously; any other accepted grid comes back as it
\* was, the right-hand side not reversed.
C10_ReversedIffEveryPairDescends ==
    (op = "check_inputs" /\ ret.status = "ok")
    => IF EveryPairDescends(args.t.data)
       THEN /\ ret.t.data = NegData(args.t.data)
            /\ ret.func = _ReverseFunc(Unreversed)
            /\ ReversesTime(ret.func, Unreversed)
       ELSE /\ ret.t = args.t
            /\ ret.func = Unreversed

\* C10's case: a grid of one point, accepted, negated and reversed.
C10_Witness ==
    /\ op = "check_inputs"
    /\ ret.status = "ok"
    /\ Len(args.t.data) = 1
    /\ ret.t.data # args.t.data
    /\ ret.func.kind = "reverse"
====
